---- MODULE Spec2Model ----
(***************************************************************************)
(* Lifecycle bridge around the Avahi simple poll and client:               *)
(*   zeroconf/src/avahi/poll.rs    ManagedAvahiSimplePoll                   *)
(*   zeroconf/src/avahi/client.rs  ManagedAvahiClient                       *)
(*   zeroconf/src/avahi/avahi_util.rs  sys_exec, get_error, ...             *)
(* Threads share one poll through Arc clones; every method call of a       *)
(* thread is split at the points where another thread can interleave.      *)
(***************************************************************************)
EXTENDS Integers, Sequences, FiniteSets, TLC

\* ------------------------------------------------------------------ bounds
NumThreads == 2
MaxClients == 1
MaxIterateCalls == 2
MaxLoopCalls == 1

Threads == 1..NumThreads
Clients == 1..MaxClients

\* --------------------------------------------------------- machine integers
\* i32::MAX, written so that no intermediate value leaves the 32-bit range.
I32_MAX == 2147483647
I32_MIN == (-2147483647) - 1

\* A u64 / u128 is a little-endian sequence of 16-bit limbs.
LimbBase == 2^16

Limb(w, i) == IF i <= Len(w) THEN w[i] ELSE 0

\* w * k + carry, limb by limb (k and carry small enough for one limb product).
RECURSIVE MulAdd(_, _, _)
MulAdd(w, k, carry) ==
    IF w = <<>>
    THEN IF carry = 0 THEN <<>>
         ELSE <<carry % LimbBase>> \o MulAdd(<<>>, k, carry \div LimbBase)
    ELSE LET v == Head(w) * k + carry
         IN  <<v % LimbBase>> \o MulAdd(Tail(w), k, v \div LimbBase)

\* The limbs of a number that fits 32 bits (u64 layout: four limbs).
U64(n) == <<n % LimbBase, n \div LimbBase, 0, 0>>
U64_MAX == <<65535, 65535, 65535, 65535>>

\* std::time::Duration: whole seconds (u64) and sub-second nanoseconds (u32).
Duration(secs, nanos) == [secs |-> secs, nanos |-> nanos]

\* Duration::as_millis(): secs * 1000 + nanos / 1_000_000, as a u128.
as_millis(d) == MulAdd(d.secs, 1000, d.nanos \div 1000000)

\* u128 -> i32 by TryInto: Some(value) when it fits, None otherwise.
try_into_i32(w) ==
    IF (\A i \in 3..Len(w) : w[i] = 0) /\ Limb(w, 2) <= 32767
    THEN [some |-> TRUE, value |-> Limb(w, 2) * LimbBase + Limb(w, 1)]
    ELSE [some |-> FALSE, value |-> 0]

\* u128 -> i32 by a truncating `as` cast (two's complement of the low 32 bits).
cast_i32(w) ==
    IF Limb(w, 2) <= 32767
    THEN Limb(w, 2) * LimbBase + Limb(w, 1)
    ELSE (Limb(w, 2) - LimbBase) * LimbBase + Limb(w, 1)

\* A plausible slip of the conversion in iterate: `as i32` instead of try_into.
sleep_time_wrapping(timeout) == cast_i32(as_millis(timeout))

\* poll.rs iterate, lines 61-64: as_millis().try_into().unwrap_or(i32::MAX).
sleep_time(timeout) ==
    LET r == try_into_i32(as_millis(timeout))
    IN  IF r.some THEN r.value ELSE I32_MAX

\* The timeouts the callers pass.
Timeouts ==
    { Duration(U64(0), 0),
      Duration(U64(0), 1999999),
      Duration(U64(2147483), 647000000),
      Duration(U64(2147483), 648000000),
      Duration(U64(4294967), 296000000),
      Duration(U64_MAX, 999999999) }

\* ------------------------------------------------------------------ errors
AVAHI_ERR_FAILURE == -1

\* avahi_util.rs get_error: the native string table, by code.
get_error(code) ==
    IF code = AVAHI_ERR_FAILURE
    THEN <<"Operation failed">>
    ELSE <<"avahi_strerror(", ToString(code), ")">>

Ok == [kind |-> "Ok"]

\* Error::MdnsSystemError { code, message }
MdnsSystemError(code, message) ==
    [kind |-> "MdnsSystemError", code |-> code, message |-> message]

\* Error::from(&str) / "..".into(): one conversion, whatever the call site.
ErrorFrom(s) == [kind |-> "IllegalState", message |-> <<s>>]

\* A slip of sys_exec: reports failure for positive statuses as well.
sys_exec_nonzero(status, message) ==
    IF status # 0
    THEN MdnsSystemError(status,
            <<message, ": (code: ", ToString(status), ", message:", "\"">>
            \o get_error(status) \o <<"\"", ")">>)
    ELSE Ok

\* avahi_util.rs sys_exec, applied to the status its closure returned.
sys_exec(status, message) ==
    IF status < 0
    THEN MdnsSystemError(status,
            <<message, ": (code: ", ToString(status), ", message:", "\"">>
            \o get_error(status) \o <<"\"", ")">>)
    ELSE Ok

\* ------------------------------------------------------------------- state
VARIABLES
    poll,               \* ManagedAvahiSimplePoll: [state, finished]
    simple_poll,        \* the native AvahiSimplePoll behind `native`
    holds,              \* holds[t]: thread t owns an Arc<ManagedAvahiSimplePoll>
    pc,                 \* pc[t]: where thread t is inside its current call
    call,               \* call[t]: arguments, native answer and result of t's call
    inner,              \* inner[c]: the native AvahiClient of client c
    client_poll,        \* client_poll[c]: client c's `_poll` field holds an Arc
    client_free_calls   \* avahi_client_free calls, per client

vars == <<poll, simple_poll, holds, pc, call, inner, client_poll, client_free_calls>>

NoResult == [kind |-> "None"]
NoTimeout == Duration(U64(0), 0)
\* A pointer handed back by the native library: null, or one to `what`.
NullPtr == <<>>
Ptr(what) == <<what>>

\* args: the arguments of a utility call; native: the pointer the native call
\* returned; status: the integer the native call returned or wrote.
NoCall == [op |-> "none", context |-> "", timeout |-> NoTimeout, sleep_time |-> 0,
           args |-> <<>>, native |-> NullPtr, status |-> 0, result |-> NoResult]

Returned(op, context, status, result) ==
    [op |-> op, context |-> context, timeout |-> NoTimeout, sleep_time |-> 0,
     args |-> <<>>, native |-> NullPtr, status |-> status, result |-> result]

\* Ok(value)
OkValue(value) == [kind |-> "Ok", value |-> value]

Init ==
    /\ poll = [state |-> "none", finished |-> FALSE]
    /\ simple_poll = [quit |-> FALSE, iterate_calls |-> 0, loop_calls |-> 0,
                      free_calls |-> 0]
    /\ holds = [t \in Threads |-> FALSE]
    /\ pc = [t \in Threads |-> "idle"]
    /\ call = [t \in Threads |-> NoCall]
    /\ inner = [c \in Clients |-> "none"]
    /\ client_poll = [c \in Clients |-> FALSE]
    /\ client_free_calls = [c \in Clients |-> 0]

\* ------------------------------------------------------ shared ownership
\* Strong count of the Arc<ManagedAvahiSimplePoll>: thread-held clones plus
\* the `_poll` field of every client.
Owners(h, cp) ==
    Cardinality({t \in Threads : h[t]}) + Cardinality({c \in Clients : cp[c]})

\* A slip of the destructor: frees the native poll only once it has finished.
drop_poll_if_finished(p, sp) ==
    IF p.finished THEN [sp EXCEPT !.free_calls = @ + 1] ELSE sp

\* poll.rs Drop for ManagedAvahiSimplePoll: avahi_simple_poll_free(self.native).
drop_poll(p, sp) == [sp EXCEPT !.free_calls = @ + 1]

\* An Arc was released, leaving owners h and cp: the last one drops the poll.
Release(h, cp) ==
    IF Owners(h, cp) = 0 /\ poll.state = "live"
    THEN /\ poll' = [poll EXCEPT !.state = "freed"]
         /\ simple_poll' = drop_poll(poll, simple_poll)
    ELSE UNCHANGED <<poll, simple_poll>>

\* ---------------------------------------------------- ManagedAvahiSimplePoll
\* A slip of has_finished: the flag is never seen as set.
has_finished_stale(p) == FALSE

\* A slip of has_finished: the condition is inverted.
has_finished_negated(p) == ~p.finished

\* poll.rs has_finished: *self.finished.read()
has_finished(p) == p.finished

\* A slip of mark_finished: the flag is flipped instead of set.
mark_finished_toggle(p) == [p EXCEPT !.finished = ~@]

\* poll.rs mark_finished: *self.finished.write() = true
mark_finished(p) == [p EXCEPT !.finished = TRUE]

\* A slip of new: the null check is missing, a handle wraps whatever came back.
new_without_null_check(t, ok) ==
    /\ pc[t] = "idle"
    /\ poll.state = "none"
    /\ poll' = [state |-> "live", finished |-> FALSE]
    /\ holds' = [holds EXCEPT ![t] = TRUE]
    /\ call' = [call EXCEPT ![t] =
                    [Returned("new", "", 0, Ok) EXCEPT
                        !.native = IF ok THEN Ptr("AvahiSimplePoll") ELSE NullPtr]]
    /\ UNCHANGED <<simple_poll, pc, inner, client_poll, client_free_calls>>

\* poll.rs new: avahi_simple_poll_new() returned a non-null pointer or null.
new(t, ok) ==
    /\ pc[t] = "idle"
    /\ poll.state = "none"
    /\ IF ok
       THEN /\ poll' = [state |-> "live", finished |-> FALSE]
            /\ holds' = [holds EXCEPT ![t] = TRUE]
            /\ call' = [call EXCEPT ![t] =
                            [Returned("new", "", 0, Ok) EXCEPT
                                !.native = Ptr("AvahiSimplePoll")]]
       ELSE /\ call' = [call EXCEPT ![t] = Returned("new", "", 0,
                            ErrorFrom("could not initialize AvahiSimplePoll"))]
            /\ UNCHANGED <<poll, holds>>
    /\ UNCHANGED <<simple_poll, pc, inner, client_poll, client_free_calls>>

\* Arc::clone of the poll handle, handed from thread t to thread u.
arc_clone(t, u) ==
    /\ holds[t] /\ ~holds[u]
    /\ pc[u] = "idle"
    /\ holds' = [holds EXCEPT ![u] = TRUE]
    /\ UNCHANGED <<poll, simple_poll, pc, call, inner, client_poll, client_free_calls>>

\* Thread t drops its Arc; the last owner runs the poll's destructor.
arc_drop(t) ==
    /\ holds[t]
    /\ pc[t] = "idle"
    /\ holds' = [holds EXCEPT ![t] = FALSE]
    /\ Release(holds', client_poll)
    /\ UNCHANGED <<pc, call, inner, client_poll, client_free_calls>>

\* Native iterate calls are counted; the budget stops successful iterations.
IterateBudget ==
    \/ simple_poll.iterate_calls < MaxIterateCalls
    \/ simple_poll.quit
    \/ poll.finished

\* A slip of iterate: the finished check is missing.
iterate_check_unguarded(t, timeout) ==
    /\ pc[t] = "idle"
    /\ holds[t]
    /\ IterateBudget
    /\ call' = [call EXCEPT ![t] =
                    [op |-> "iterate", context |-> "", timeout |-> timeout,
                     sleep_time |-> sleep_time(timeout), args |-> <<>>,
                     native |-> NullPtr, status |-> 0,
                     result |-> NoResult]]
    /\ pc' = [pc EXCEPT ![t] = "iterate_call"]
    /\ UNCHANGED <<poll, simple_poll, holds, inner, client_poll, client_free_calls>>

\* poll.rs iterate, lines 61-72: the timeout conversion and the finished check.
iterate_check(t, timeout) ==
    /\ pc[t] = "idle"
    /\ holds[t]
    /\ IterateBudget
    /\ IF has_finished(poll)
       THEN /\ call' = [call EXCEPT ![t] = Returned("iterate", "", 0,
                            ErrorFrom("avahi_simple_poll_iterate(..) already finished"))]
            /\ pc' = pc
       ELSE /\ call' = [call EXCEPT ![t] =
                            [op |-> "iterate", context |-> "", timeout |-> timeout,
                             sleep_time |-> sleep_time(timeout), args |-> <<>>,
                             native |-> NullPtr, status |-> 0,
                             result |-> NoResult]]
            /\ pc' = [pc EXCEPT ![t] = "iterate_call"]
    /\ UNCHANGED <<poll, simple_poll, holds, inner, client_poll, client_free_calls>>

\* What avahi_simple_poll_iterate can return (poll.rs line 74): 1 if a quit
\* request has been scheduled, otherwise 0, -1, or a value the comment does
\* not list.
IterateResults == IF simple_poll.quit THEN {1} ELSE {0, -1, -2, 2}

\* poll.rs iterate, line 75: avahi_simple_poll_iterate(self.native, sleep_time).
iterate_native(t, r) ==
    /\ pc[t] = "iterate_call"
    /\ r \in IterateResults
    /\ simple_poll' = [simple_poll EXCEPT !.iterate_calls = @ + 1]
    /\ call' = [call EXCEPT ![t] = Returned("iterate", "", r, NoResult)]
    /\ pc' = [pc EXCEPT ![t] = "iterate_match"]
    /\ UNCHANGED <<poll, holds, inner, client_poll, client_free_calls>>

\* A slip of the match: every negative status takes the arm of -1.
iterate_result_negative_is_error(r) ==
    CASE r = 0 -> Ok
      [] r = 1 -> ErrorFrom("avahi_simple_poll_iterate(..) disconnected")
      [] r < 0 -> ErrorFrom("avahi_simple_poll_iterate(..) threw an error result")
      [] OTHER -> ErrorFrom("avahi_simple_poll_iterate(..) returned an unknown result")

\* poll.rs iterate, lines 75-93: the result of the match on the native status.
iterate_result(r) ==
    CASE r = 0 -> Ok
      [] r = 1 -> ErrorFrom("avahi_simple_poll_iterate(..) disconnected")
      [] r = -1 -> ErrorFrom("avahi_simple_poll_iterate(..) threw an error result")
      [] OTHER -> ErrorFrom("avahi_simple_poll_iterate(..) returned an unknown result")

\* A slip of the match: the catch-all arm does not mark the handle finished.
iterate_match_unknown_unmarked(t) ==
    /\ pc[t] = "iterate_match"
    /\ poll' = IF call[t].status \in {1, -1} THEN mark_finished(poll) ELSE poll
    /\ call' = [call EXCEPT ![t].result = iterate_result(call[t].status)]
    /\ pc' = [pc EXCEPT ![t] = "idle"]
    /\ UNCHANGED <<simple_poll, holds, inner, client_poll, client_free_calls>>

\* poll.rs iterate, lines 76-93: the arms of the match.
iterate_match(t) ==
    /\ pc[t] = "iterate_match"
    /\ poll' = IF call[t].status = 0 THEN poll ELSE mark_finished(poll)
    /\ call' = [call EXCEPT ![t].result = iterate_result(call[t].status)]
    /\ pc' = [pc EXCEPT ![t] = "idle"]
    /\ UNCHANGED <<simple_poll, holds, inner, client_poll, client_free_calls>>

\* A slip of quit: also marks the handle finished.
quit_marking_finished(t) ==
    /\ pc[t] = "idle"
    /\ holds[t]
    /\ simple_poll' = [simple_poll EXCEPT !.quit = TRUE]
    /\ poll' = mark_finished(poll)
    /\ call' = [call EXCEPT ![t] = Returned("quit", "", 0, NoResult)]
    /\ UNCHANGED <<holds, pc, inner, client_poll, client_free_calls>>

\* poll.rs quit: avahi_simple_poll_quit(self.native).
quit(t) ==
    /\ pc[t] = "idle"
    /\ holds[t]
    /\ simple_poll' = [simple_poll EXCEPT !.quit = TRUE]
    /\ call' = [call EXCEPT ![t] = Returned("quit", "", 0, NoResult)]
    /\ UNCHANGED <<poll, holds, pc, inner, client_poll, client_free_calls>>

\* poll.rs start_loop: the closure calls avahi_simple_poll_loop(self.native),
\* which blocks the thread.
start_loop_call(t) ==
    /\ pc[t] = "idle"
    /\ holds[t]
    /\ simple_poll.loop_calls < MaxLoopCalls
    /\ simple_poll' = [simple_poll EXCEPT !.loop_calls = @ + 1]
    /\ call' = [call EXCEPT ![t] = NoCall]
    /\ pc' = [pc EXCEPT ![t] = "loop"]
    /\ UNCHANGED <<poll, holds, inner, client_poll, client_free_calls>>

\* What avahi_simple_poll_loop can return: it iterates until an iteration
\* returns non-zero, 1 once a quit request is scheduled, negative on error.
LoopResults == IF simple_poll.quit THEN {1} ELSE {-1, -2}

\* poll.rs start_loop, lines 48-51: sys_exec wraps the status of the loop.
start_loop_return(t, r) ==
    /\ pc[t] = "loop"
    /\ r \in LoopResults
    /\ call' = [call EXCEPT ![t] =
                    Returned("start_loop", "could not start AvahiSimplePoll", r,
                             sys_exec(r, "could not start AvahiSimplePoll"))]
    /\ pc' = [pc EXCEPT ![t] = "idle"]
    /\ UNCHANGED <<poll, simple_poll, holds, inner, client_poll, client_free_calls>>

\* The statuses a closure handed to sys_exec returns.
Statuses == {I32_MIN, AVAHI_ERR_FAILURE, 0, 1, I32_MAX}
Contexts == {"test", "uh oh spaghetti-o"}

\* avahi_util.rs sys_exec called with a closure returning `status`.
sys_exec_call(t, status, message) ==
    /\ pc[t] = "idle"
    /\ call' = [call EXCEPT ![t] =
                    Returned("sys_exec", message, status, sys_exec(status, message))]
    /\ UNCHANGED <<poll, simple_poll, holds, pc, inner, client_poll, client_free_calls>>

\* ------------------------------------------------------- ManagedAvahiClient
ClientErrors == {AVAHI_ERR_FAILURE, -2}

\* A slip of the struct: the client keeps no Arc of the poll it was built on.
client_new_without_poll(t, c, ok, err, move) ==
    /\ pc[t] = "idle"
    /\ holds[t]
    /\ inner[c] = "none"
    /\ holds' = [holds EXCEPT ![t] = ~move]
    /\ inner' = [inner EXCEPT ![c] = IF ok THEN "live" ELSE "null"]
    /\ client_poll' = client_poll
    /\ call' = [call EXCEPT ![t] = Returned("client_new", "", err,
                    IF ok THEN Ok ELSE MdnsSystemError(err, get_error(err)))]
    /\ Release(holds', client_poll')
    /\ UNCHANGED <<pc, client_free_calls>>

\* A slip of new: the Arc of the params is leaked when the native call fails.
client_new_leaking_poll(t, c, ok, err, move) ==
    /\ pc[t] = "idle"
    /\ holds[t]
    /\ inner[c] = "none"
    /\ holds' = [holds EXCEPT ![t] = ~move]
    /\ inner' = [inner EXCEPT ![c] = IF ok THEN "live" ELSE "null"]
    /\ client_poll' = [client_poll EXCEPT ![c] = TRUE]
    /\ call' = [call EXCEPT ![t] = Returned("client_new", "", err,
                    IF ok THEN Ok ELSE MdnsSystemError(err, get_error(err)))]
    /\ Release(holds', client_poll')
    /\ UNCHANGED <<pc, client_free_calls>>

\* client.rs new: avahi_client_new returned a client (ok) or null, writing
\* err. The params own an Arc of the poll: the caller's own (move) or a clone.
client_new(t, c, ok, err, move) ==
    /\ pc[t] = "idle"
    /\ holds[t]
    /\ inner[c] = "none"
    /\ holds' = [holds EXCEPT ![t] = ~move]
    /\ inner' = [inner EXCEPT ![c] = IF ok THEN "live" ELSE "null"]
    /\ client_poll' = [client_poll EXCEPT ![c] = ok]
    /\ call' = [call EXCEPT ![t] = Returned("client_new", "", err,
                    IF ok THEN Ok ELSE MdnsSystemError(err, get_error(err)))]
    /\ Release(holds', client_poll')
    /\ UNCHANGED <<pc, client_free_calls>>

\* avahi_util.rs get_last_error: avahi_client_errno(client) returned errno.
get_last_error(errno) == MdnsSystemError(errno, get_error(errno))

\* A slip of get_host_name: the null test is inverted.
get_host_name_inverted(host_name, errno) ==
    IF host_name = NullPtr
    THEN OkValue("")
    ELSE get_last_error(errno)

\* client.rs get_host_name: avahi_client_get_host_name(client) returned the
\* pointer host_name; errno is what avahi_client_errno(client) answers.
get_host_name(host_name, errno) ==
    IF host_name # NullPtr
    THEN OkValue(host_name[1])
    ELSE get_last_error(errno)

\* The answers of avahi_client_get_host_name.
HostNames == {NullPtr, Ptr("host.local")}

\* client.rs host_name: thread t queries client c.
host_name(t, c, name, errno) ==
    /\ pc[t] = "idle"
    /\ inner[c] = "live"
    /\ call' = [call EXCEPT ![t] =
                    [Returned("host_name", "", errno, get_host_name(name, errno))
                        EXCEPT !.args = <<c>>, !.native = name]]
    /\ UNCHANGED <<poll, simple_poll, holds, pc, inner, client_poll, client_free_calls>>

\* client.rs Drop for ManagedAvahiClient: avahi_client_free(self.inner).
client_drop(c) ==
    /\ inner[c] = "live"
    /\ inner' = [inner EXCEPT ![c] = "freed"]
    /\ client_free_calls' = [client_free_calls EXCEPT ![c] = @ + 1]
    /\ UNCHANGED <<poll, simple_poll, holds, pc, call, client_poll>>

\* After Drop::drop the fields are dropped: `_poll` releases its Arc.
client_drop_fields(c) ==
    /\ inner[c] = "freed"
    /\ client_poll[c]
    /\ client_poll' = [client_poll EXCEPT ![c] = FALSE]
    /\ Release(holds, client_poll')
    /\ UNCHANGED <<holds, pc, call, inner, client_free_calls>>

\* ----------------------------------------------------------- specification
\* The timeouts of the lifecycle runs: none, and one that is clamped.
LifecycleTimeouts == {NoTimeout, Duration(U64_MAX, 999999999)}

\* The event-loop handle driven by iterate and cancelled by quit, never dropped.
LiveNext ==
    \/ \E t \in Threads, ok \in BOOLEAN : new(t, ok)
    \/ \E t, u \in Threads : arc_clone(t, u)
    \/ \E t \in Threads, d \in LifecycleTimeouts : iterate_check(t, d)
    \/ \E t \in Threads, r \in IterateResults \ {2} : iterate_native(t, r)
    \/ \E t \in Threads : iterate_match(t)
    \/ \E t \in Threads : quit(t)

\* The event-loop handle over its whole life: also run by start_loop, and
\* dropped.
PollNext ==
    \/ LiveNext
    \/ \E t \in Threads : start_loop_call(t)
    \/ \E t \in Threads, r \in LoopResults : start_loop_return(t, r)
    \/ \E t \in Threads : arc_drop(t)

\* The owners of the poll: thread-held Arcs and clients, with iterations that
\* can finish the handle before it is dropped.
OwnNext ==
    \/ \E t \in Threads : new(t, TRUE)
    \/ \E t, u \in Threads : arc_clone(t, u)
    \/ \E t \in Threads : arc_drop(t)
    \/ \E t \in Threads : iterate_check(t, NoTimeout)
    \/ \E t \in Threads, r \in IterateResults \ {-2, 2} : iterate_native(t, r)
    \/ \E t \in Threads : iterate_match(t)
    \/ \E t \in Threads, c \in Clients, ok \in BOOLEAN, err \in ClientErrors,
          move \in BOOLEAN : client_new(t, c, ok, err, move)
    \/ \E c \in Clients : client_drop(c)
    \/ \E c \in Clients : client_drop_fields(c)

\* One handle iterated by every thread, over every kind of native result.
OutcomeNext ==
    \/ \E t \in Threads : new(t, TRUE)
    \/ \E t, u \in Threads : arc_clone(t, u)
    \/ \E t \in Threads : iterate_check(t, NoTimeout)
    \/ \E t \in Threads, r \in IterateResults : iterate_native(t, r)
    \/ \E t \in Threads : iterate_match(t)
    \/ \E t \in Threads : quit(t)

\* ---------------------------------------------------------------------------
\* avahi_util.rs: interface indices and service-type strings. A string is the
\* sequence of its characters; a u32 is two 16-bit limbs, low limb first.
\* ---------------------------------------------------------------------------

\* The value a utility function returned.
Value(v) == [kind |-> "Value", value |-> v]

\* NetworkInterface::Unspec and NetworkInterface::AtIndex(u32).
Unspec == [kind |-> "Unspec"]
AtIndex(i) == [kind |-> "AtIndex", index |-> i]

AVAHI_IF_UNSPEC == -1

\* i32 -> u32 by an `as` cast (the same 32 bits).
cast_u32(i) == <<i % LimbBase, (i \div LimbBase) % LimbBase>>

\* avahi_util.rs interface_index.
interface_index(interface) ==
    IF interface = Unspec
    THEN AVAHI_IF_UNSPEC
    ELSE cast_i32(interface.index)

\* avahi_util.rs interface_from_index.
interface_from_index(index) ==
    IF index = AVAHI_IF_UNSPEC
    THEN Unspec
    ELSE AtIndex(cast_u32(index))

\* 0, 1, i32::MAX, 2^31, u32::MAX - 1 and u32::MAX.
U32s == {<<0, 0>>, <<1, 0>>, <<65535, 32767>>, <<0, 32768>>, <<65534, 65535>>,
         <<65535, 65535>>}

NetworkInterfaces == {Unspec} \cup {AtIndex(i) : i \in U32s}

AvahiIfIndexes == {I32_MIN, -2, AVAHI_IF_UNSPEC, 0, 1, I32_MAX}

\* str::starts_with(char)
starts_with(s, c) == Len(s) > 0 /\ s[1] = c

\* The literal "._sub." of format_sub_type.
SubMarker == <<".", "_", "s", "u", "b", ".">>

\* A slip of format_sub_type: the underscore is prepended unconditionally.
format_sub_type_always_prefixed(sub_type, kind) ==
    <<"_">> \o sub_type \o SubMarker \o kind

\* avahi_util.rs format_sub_type: format!("{}{}._sub.{}", ..).
format_sub_type(sub_type, kind) ==
    (IF starts_with(sub_type, "_") THEN <<>> ELSE <<"_">>)
        \o sub_type \o SubMarker \o kind

\* ServiceType, as its accessors name(), protocol() and sub_types() show it.
ServiceType(name, protocol, sub_types) ==
    [name |-> name, protocol |-> protocol, sub_types |-> sub_types]

\* avahi_util.rs format_service_type: format!("_{}._{}", name, protocol).
format_service_type(service_type) ==
    <<"_">> \o service_type.name \o <<".", "_">> \o service_type.protocol

\* A slip of format_browser_type: the last sub-type is used, not the first.
format_browser_type_last_sub_type(service_type) ==
    LET kind == format_service_type(service_type)
        sub_types == service_type.sub_types
    IN  IF sub_types = <<>>
        THEN kind
        ELSE format_sub_type(sub_types[Len(sub_types)], kind)

\* avahi_util.rs format_browser_type (the warning it logs for more than one
\* sub-type changes no value).
format_browser_type(service_type) ==
    LET kind == format_service_type(service_type)
        sub_types == service_type.sub_types
    IN  IF sub_types = <<>>
        THEN kind
        ELSE format_sub_type(sub_types[1], kind)

\* The longest list of sub-types of a service type.
MaxSubTypes == 2

\* "", "a", "_a", "a_", "__a" and "printer"
SubTypes == {<<>>, <<"a">>, <<"_", "a">>, <<"a", "_">>, <<"_", "_", "a">>,
             <<"p", "r", "i", "n", "t", "e", "r">>}

\* The sub-types that service types list: "a", "_a", "a_" and "printer".
ListedSubTypes == {s \in SubTypes : Len(s) > 0 /\ s # <<"_", "_", "a">>}

SubTypeLists == UNION {[1..n -> ListedSubTypes] : n \in 0..MaxSubTypes}

\* "http" and "_x"
Names == {<<"h", "t", "t", "p">>, <<"_", "x">>}

\* "tcp" and "udp"
Protocols == {<<"t", "c", "p">>, <<"u", "d", "p">>}

ServiceTypes ==
    {ServiceType(n, p, l) : n \in Names, p \in Protocols, l \in SubTypeLists}

\* The kinds given to format_sub_type: "", "k" and formatted service types.
Kinds == {<<>>, <<"k">>}
            \cup {format_service_type(ServiceType(n, p, <<>>)) :
                     n \in Names, p \in Protocols}

\* A call of a utility function: its arguments and what it returned.
UtilCall(t, op, args, value) ==
    /\ pc[t] = "idle"
    /\ call' = [call EXCEPT ![t] =
                    [Returned(op, "", 0, Value(value)) EXCEPT !.args = args]]
    /\ UNCHANGED <<poll, simple_poll, holds, pc, inner, client_poll, client_free_calls>>

interface_index_call(t, interface) ==
    UtilCall(t, "interface_index", <<interface>>, interface_index(interface))

interface_from_index_call(t, index) ==
    UtilCall(t, "interface_from_index", <<index>>, interface_from_index(index))

format_sub_type_call(t, sub_type, kind) ==
    UtilCall(t, "format_sub_type", <<sub_type, kind>>, format_sub_type(sub_type, kind))

format_browser_type_call(t, service_type) ==
    UtilCall(t, "format_browser_type", <<service_type>>,
             format_browser_type(service_type))

\* The utility functions share no state: one thread calls them, one at a time.
UtilNext ==
    LET t == CHOOSE u \in Threads : TRUE
    IN  \/ \E x \in NetworkInterfaces : interface_index_call(t, x)
        \/ \E i \in AvahiIfIndexes : interface_from_index_call(t, i)
        \/ \E s \in SubTypes, k \in Kinds : format_sub_type_call(t, s, k)
        \/ \E st \in ServiceTypes : format_browser_type_call(t, st)

\* The client handle: built, queried and dropped, on a poll that can finish.
ClientNext ==
    \/ \E t \in Threads : new(t, TRUE)
    \/ \E t \in Threads : arc_drop(t)
    \/ \E t \in Threads : iterate_check(t, NoTimeout)
    \/ \E t \in Threads : iterate_native(t, -1)
    \/ \E t \in Threads : iterate_match(t)
    \/ \E t \in Threads, c \in Clients, ok \in BOOLEAN, err \in ClientErrors,
          move \in BOOLEAN : client_new(t, c, ok, err, move)
    \/ \E t \in Threads, c \in Clients, name \in HostNames, errno \in ClientErrors :
          host_name(t, c, name, errno)
    \/ \E c \in Clients : client_drop(c)
    \/ \E c \in Clients : client_drop_fields(c)

\* The timeout conversion of iterate, over every timeout.
TimeoutNext ==
    \/ \E t \in Threads : new(t, TRUE)
    \/ \E t, u \in Threads : arc_clone(t, u)
    \/ \E t \in Threads, d \in Timeouts : iterate_check(t, d)
    \/ \E t \in Threads : iterate_native(t, 0)
    \/ \E t \in Threads : iterate_match(t)

\* sys_exec, called directly and through start_loop.
SysExecNext ==
    \/ \E t \in Threads : new(t, TRUE)
    \/ \E t \in Threads : quit(t)
    \/ \E t \in Threads : start_loop_call(t)
    \/ \E t \in Threads, r \in LoopResults : start_loop_return(t, r)
    \/ \E t \in Threads, s \in Statuses, m \in Contexts : sys_exec_call(t, s, m)

Next ==
    \/ PollNext
    \/ ClientNext
    \/ TimeoutNext
    \/ OwnNext
    \/ SysExecNext
    \/ OutcomeNext
    \/ UtilNext

Spec == Init /\ [][Next]_vars

PollSpec == Init /\ [][PollNext]_vars

OwnSpec == Init /\ [][OwnNext]_vars

ClientSpec == Init /\ [][ClientNext]_vars

OutcomeSpec == Init /\ [][OutcomeNext]_vars

UtilSpec == Init /\ [][UtilNext]_vars

TimeoutSpec == Init /\ [][TimeoutNext]_vars

SysExecSpec == Init /\ [][SysExecNext]_vars

\* The driving threads keep calling iterate: a thread that holds the handle and
\* is between calls calls iterate again, and every call that has started runs
\* to its return.
LiveSpec ==
    /\ Init /\ [][LiveNext]_vars
    /\ \A t \in Threads :
        /\ WF_vars(\E d \in LifecycleTimeouts : iterate_check(t, d))
        /\ WF_vars(\E r \in IterateResults \ {2} : iterate_native(t, r))
        /\ WF_vars(iterate_match(t))

\* ------------------------------------------------------------- properties
AlreadyFinishedMessage == <<"avahi_simple_poll_iterate(..) already finished">>

\* Thread t's last call was an iterate refused because the handle had finished.
RefusedIterate(t) ==
    /\ pc[t] = "idle"
    /\ call[t].op = "iterate"
    /\ call[t].result.kind \notin {"Ok", "None"}
    /\ call[t].result.message = AlreadyFinishedMessage

\* Thread t's last call was an iterate whose native call returned non-zero.
FailedIterate(t) ==
    /\ pc[t] = "idle"
    /\ call[t].op = "iterate"
    /\ call[t].status # 0

\* Some iterate call has seen a non-zero native result: it is about to mark
\* the handle finished, or one has already done so.
ObservedNonZero ==
    \/ poll.finished
    \/ \E u \in Threads : pc[u] = "iterate_match" /\ call[u].status # 0

\* The step begins an iterate call of thread t.
IterateBegins(t) ==
    /\ pc[t] = "idle"
    /\ call'[t] # call[t]
    /\ call'[t].op = "iterate"

\* The step is an iterate call of thread t that is refused at once: it returns
\* the already-finished error and leaves the native poll untouched.
RefusedStep(t) ==
    /\ pc'[t] = "idle"
    /\ call'[t].result.kind = "IllegalState"
    /\ call'[t].result.message = AlreadyFinishedMessage
    /\ simple_poll' = simple_poll

\* C1 as stated: once an iterate call has observed a non-zero native result,
\* every iterate call that begins afterwards, on any thread, returns the
\* already-finished error and does not invoke the native iterate routine.
C1_RefusedOnceObserved ==
    [][\A t \in Threads :
          (ObservedNonZero /\ IterateBegins(t)) => RefusedStep(t)]_vars

\* C1 amended: once an iterate call has set the terminal-state flag, every
\* iterate call that begins afterwards, on any thread, returns the
\* already-finished error and does not invoke the native iterate routine.
C1_RefusedOnceFinished ==
    [][\A t \in Threads :
          (poll.finished /\ IterateBegins(t)) => RefusedStep(t)]_vars

\* An iterate call was refused on a finished handle after the native routine
\* had returned non-zero to another call.
C1_Witness ==
    \E t \in Threads : RefusedIterate(t) /\ poll.finished
                       /\ simple_poll.iterate_calls > 0

\* C2: the terminal-state flag is false right after a successful new and no
\* step of iterate, start_loop or quit (or a drop) resets it once it is true.
C2_FinishedMonotonic ==
    [][/\ poll.finished => poll'.finished
       /\ (poll.state = "none" /\ poll'.state = "live") => ~poll'.finished]_vars

\* The flag is true while a start_loop is running and a quit has been signalled.
C2_Witness ==
    /\ poll.finished
    /\ simple_poll.quit
    /\ \E t \in Threads : pc[t] = "loop"

\* C3: once quit has been called on a handle, threads that keep calling iterate
\* bring the handle to Finished.
C3_QuitLeadsToFinished == simple_poll.quit ~> poll.finished

\* A quit was signalled, an iterate saw it (native result 1) and the handle is
\* finished.
C3_Witness ==
    /\ simple_poll.quit
    /\ poll.finished
    /\ \E t \in Threads : FailedIterate(t) /\ call[t].status = 1

\* C4 as stated: when start_loop has returned (the native loop honoured a quit
\* or reported an error), the terminal-state flag is true.
C4_LoopReturnFinishes ==
    \A t \in Threads :
        (pc[t] = "idle" /\ call[t].op = "start_loop") => poll.finished

\* C5: the native poll is never freed while a client created against it is
\* still un-freed.
C5_ClientFreedBeforePoll ==
    simple_poll.free_calls > 0 => \A c \in Clients : inner[c] # "live"

\* Every thread dropped its Arc before the client was dropped; the client was
\* freed, then the poll.
C5_Witness ==
    /\ simple_poll.free_calls = 1
    /\ \E c \in Clients : inner[c] = "freed" /\ client_free_calls[c] = 1

\* C6: every native poll and client that was created is freed exactly once:
\* not before its owners are gone, once they are, whatever the flag says.
C6_FreedExactlyOnce ==
    /\ simple_poll.free_calls <= 1
    /\ (poll.state # "none" /\ Owners(holds, client_poll) = 0)
          => simple_poll.free_calls = 1
    /\ Owners(holds, client_poll) > 0 => simple_poll.free_calls = 0
    /\ \A c \in Clients :
          /\ inner[c] = "freed" => client_free_calls[c] = 1
          /\ inner[c] # "freed" => client_free_calls[c] = 0

\* A poll that never finished was freed after its client.
C6_Witness ==
    /\ simple_poll.free_calls = 1
    /\ ~poll.finished
    /\ \E c \in Clients : client_free_calls[c] = 1 /\ ~client_poll[c]

\* s occurs in q as a run of consecutive elements.
Contains(q, s) ==
    \E i \in 0..(Len(q) - Len(s)) : \A j \in 1..Len(s) : q[i + j] = s[j]

\* Thread t's last call went through sys_exec.
SysExecReturned(t) ==
    pc[t] = "idle" /\ call[t].op \in {"sys_exec", "start_loop"}

\* C7: sys_exec runs the native call once; a status >= 0 gives Ok, a status < 0
\* an MdnsSystemError with that code whose message embeds the context message,
\* the code and the native string of the code; start_loop returns that result
\* for the status of the native loop.
C7_SysExecWraps ==
    /\ [](\A t \in Threads : SysExecReturned(t) =>
            LET s == call[t].status
                r == call[t].result
            IN  /\ s >= 0 => r = Ok
                /\ s < 0 =>
                    /\ r.kind = "MdnsSystemError"
                    /\ r.code = s
                    /\ Contains(r.message, <<call[t].context>>)
                    /\ Contains(r.message, <<ToString(s)>>)
                    /\ Contains(r.message, get_error(s)))
    /\ [][\A t \in Threads :
            /\ (pc[t] = "idle" /\ pc'[t] = "loop")
                  => simple_poll'.loop_calls = simple_poll.loop_calls + 1
            /\ (pc[t] = "loop" /\ pc'[t] = "idle")
                  => /\ simple_poll'.loop_calls = simple_poll.loop_calls
                     /\ call'[t].op = "start_loop"
                     /\ call'[t].status \in LoopResults]_vars

\* start_loop returned the error of a failed native loop, and another thread
\* got Ok from sys_exec for a positive status.
C7_Witness ==
    \E t, u \in Threads :
        /\ SysExecReturned(t) /\ call[t].op = "start_loop" /\ call[t].status < 0
        /\ call[t].result.kind = "MdnsSystemError"
        /\ SysExecReturned(u) /\ call[u].status > 0 /\ call[u].result = Ok

\* a < b for limb sequences.
WideLess(a, b) ==
    LET n == IF Len(a) > Len(b) THEN Len(a) ELSE Len(b)
    IN  \E i \in 1..n : /\ Limb(a, i) < Limb(b, i)
                        /\ \A j \in (i + 1)..n : Limb(a, j) = Limb(b, j)

WideEq(a, b) ==
    LET n == IF Len(a) > Len(b) THEN Len(a) ELSE Len(b)
    IN  \A i \in 1..n : Limb(a, i) = Limb(b, i)

\* 2^31 as limbs.
Wide2p31 == <<0, 32768>>

\* C8: the value handed to the native iterate routine is the duration's whole
\* milliseconds when that is at most 2^31-1 and 2^31-1 otherwise; it is never
\* negative.
C8_TimeoutClamped ==
    \A t \in Threads : pc[t] = "iterate_call" =>
        LET ms == as_millis(call[t].timeout)
            st == call[t].sleep_time
        IN  /\ st >= 0
            /\ IF WideLess(ms, Wide2p31)
               THEN WideEq(<<st % LimbBase, st \div LimbBase>>, ms)
               ELSE st = I32_MAX

\* A timeout of more than 2^31-1 ms is about to be handed over as 2^31-1.
C8_Witness ==
    \E t \in Threads :
        /\ pc[t] = "iterate_call"
        /\ ~WideLess(as_millis(call[t].timeout), Wide2p31)
        /\ call[t].sleep_time = I32_MAX

\* C9 as stated: the error of an iterate on a finished handle is of the
\* illegal-state kind, the error of an iterate whose native call returned
\* non-zero is of the native-failure kind, and the two kinds differ.
C9_ErrorKindsDiffer ==
    /\ \A t \in Threads : RefusedIterate(t) => call[t].result.kind = "IllegalState"
    /\ \A t \in Threads : FailedIterate(t) => call[t].result.kind = "MdnsSystemError"
    /\ \A t, u \in Threads :
          (RefusedIterate(t) /\ FailedIterate(u))
              => call[t].result.kind # call[u].result.kind

\* C10: quit leaves the terminal-state flag as it is, also while an iterate of
\* another thread is in flight; the flag changes only from false to true, in
\* the step of an iterate call that follows a non-zero native result.
C10_QuitKeepsFlag ==
    [][/\ \A t \in Threads :
            (pc[t] = "idle" /\ call'[t] # call[t] /\ call'[t].op = "quit")
                => (poll'.finished = poll.finished /\ simple_poll'.quit)
       /\ poll'.finished # poll.finished =>
            /\ ~poll.finished
            /\ \E t \in Threads : /\ pc[t] = "iterate_match"
                                  /\ call[t].status # 0
                                  /\ pc'[t] = "idle"]_vars

\* quit was called between the native call of another thread's iterate (which
\* returned 0, so before the quit) and that iterate's return; the flag is false.
C10_Witness ==
    \E t, u \in Threads :
        /\ pc[t] = "idle" /\ call[t].op = "quit"
        /\ pc[u] = "iterate_match" /\ call[u].status = 0
        /\ simple_poll.quit
        /\ ~poll.finished

\* Thread t's last call was a client_new whose native constructor returned null.
FailedClientNew(t) ==
    /\ pc[t] = "idle"
    /\ call[t].op = "client_new"
    /\ call[t].result # Ok

\* C11: when avahi_client_new returns null, new returns an MdnsSystemError whose
\* code is the value the constructor wrote to err (message: the native string
\* of that code); no client handle exists, avahi_client_free is not called for
\* the attempt, and the Arc of the params is released, so the attempt does not
\* keep the poll alive.
C11_FailedClientNew ==
    /\ \A t \in Threads : FailedClientNew(t) =>
          /\ call[t].result.kind = "MdnsSystemError"
          /\ call[t].result.code = call[t].status
          /\ call[t].result.message = get_error(call[t].status)
          /\ \E c \in Clients : inner[c] = "null"
    /\ \A c \in Clients : inner[c] = "null" =>
          /\ client_free_calls[c] = 0
          /\ ~client_poll[c]
    /\ (poll.state = "live" /\ \A t \in Threads : ~holds[t])
          => \E c \in Clients : inner[c] \in {"live", "freed"} /\ client_poll[c]

\* The caller moved its Arc, the last one, into the params of a client_new that
\* failed with code -2: the poll was freed, nothing else was.
C11_Witness ==
    \E t \in Threads, c \in Clients :
        /\ FailedClientNew(t) /\ call[t].status = -2
        /\ inner[c] = "null"
        /\ poll.state = "freed" /\ simple_poll.free_calls = 1

\* The step is a host_name call of thread t.
HostNameStep(t) ==
    /\ pc[t] = "idle"
    /\ call'[t].op = "host_name"
    /\ call'[t] # call[t]

\* C12: host_name returns the client's current native error (the code of
\* avahi_client_errno, the message of that code) exactly when
\* avahi_client_get_host_name yields null, and Ok with the native text
\* otherwise; it changes neither the client nor the poll's flag.
C12_HostName ==
    /\ [](\A t \in Threads : (pc[t] = "idle" /\ call[t].op = "host_name") =>
            LET r == call[t].result
            IN  IF call[t].native = NullPtr
                THEN /\ r.kind = "MdnsSystemError"
                     /\ r.code = call[t].status
                     /\ r.message = get_error(call[t].status)
                ELSE r.kind = "Ok" /\ <<r.value>> = call[t].native)
    /\ [][\A t \in Threads : HostNameStep(t) =>
            /\ inner' = inner
            /\ client_poll' = client_poll
            /\ client_free_calls' = client_free_calls
            /\ poll' = poll
            /\ simple_poll' = simple_poll]_vars

\* On a finished poll one thread got the host name of the client and the other
\* the client's error for a null answer.
C12_Witness ==
    \E t, u \in Threads :
        /\ pc[t] = "idle" /\ call[t].op = "host_name" /\ call[t].result.kind = "Ok"
        /\ pc[u] = "idle" /\ call[u].op = "host_name"
        /\ call[u].native = NullPtr /\ call[u].result.kind = "MdnsSystemError"
        /\ poll.finished

\* C13: for every sub-type s that does not start with '_' and every kind k,
\* format_sub_type(s, k) = format_sub_type("_" + s, k) = "_" + s + "._sub." + k.
C13_SubTypeUnderscore ==
    \A t \in Threads : call[t].op = "format_sub_type" =>
        LET s == call[t].args[1]
            k == call[t].args[2]
        IN  ~starts_with(s, "_") =>
                /\ call[t].result.value = format_sub_type(<<"_">> \o s, k)
                /\ call[t].result.value = <<"_">> \o s \o SubMarker \o k

\* format_sub_type("a_", "_http._tcp") returned "_a_._sub._http._tcp".
C13_Witness ==
    \E t \in Threads :
        /\ call[t].op = "format_sub_type"
        /\ call[t].args[1] = <<"a", "_">>
        /\ call[t].args[2] = <<"_", "h", "t", "t", "p", ".", "_", "t", "c", "p">>
        /\ call[t].result.value =
              <<"_", "a", "_", ".", "_", "s", "u", "b", ".",
                "_", "h", "t", "t", "p", ".", "_", "t", "c", "p">>

\* C14: format_browser_type of a service type with name n, protocol p and
\* sub-types L returns "_n._p" when L is empty and format_sub_type(L[0], "_n._p")
\* otherwise; service types that differ only after the first sub-type give the
\* same string.
C14_BrowserType ==
    \A t \in Threads : call[t].op = "format_browser_type" =>
        LET st == call[t].args[1]
            kind == <<"_">> \o st.name \o <<".", "_">> \o st.protocol
        IN  /\ call[t].result.value =
                  IF Len(st.sub_types) = 0
                  THEN kind
                  ELSE format_sub_type(st.sub_types[1], kind)
            /\ \A other \in ServiceTypes :
                  (/\ other.name = st.name
                   /\ other.protocol = st.protocol
                   /\ Len(other.sub_types) > 0
                   /\ Len(st.sub_types) > 0
                   /\ other.sub_types[1] = st.sub_types[1])
                  => format_browser_type(other) = call[t].result.value

\* format_browser_type of http/tcp with sub-types "printer" and "_a" returned
\* "_printer._sub._http._tcp".
C14_Witness ==
    \E t \in Threads :
        /\ call[t].op = "format_browser_type"
        /\ call[t].args[1].sub_types = <<<<"p", "r", "i", "n", "t", "e", "r">>, <<"_", "a">>>>
        /\ call[t].args[1].name = <<"h", "t", "t", "p">>
        /\ call[t].args[1].protocol = <<"t", "c", "p">>
        /\ call[t].result.value =
              <<"_", "p", "r", "i", "n", "t", "e", "r", ".", "_", "s", "u", "b", ".",
                "_", "h", "t", "t", "p", ".", "_", "t", "c", "p">>

\* C20: for every NetworkInterface x, Unspec or AtIndex(i) with i any u32,
\* interface_from_index(interface_index(x)) = x.
C20_InterfaceRoundTrip ==
    \A t \in Threads : call[t].op = "interface_index" =>
        interface_from_index(call[t].result.value) = call[t].args[1]

\* The step returns from the iterate call of thread t, after its native call.
IterateReturns(t) ==
    /\ pc[t] = "iterate_match"
    /\ pc'[t] = "idle"

\* The description of the error iterate returns for the native result r.
OutcomeDescription(r) ==
    IF r = 1 THEN <<"avahi_simple_poll_iterate(..) disconnected">>
    ELSE IF r = -1 THEN <<"avahi_simple_poll_iterate(..) threw an error result">>
    ELSE <<"avahi_simple_poll_iterate(..) returned an unknown result">>

\* C15: an iterate call whose native call returned r returns Ok and leaves the
\* flag as it was if r = 0; if r # 0 the flag is true when it returns and it
\* returns an error described as disconnected for r = 1, threw an error for
\* r = -1 and unknown result for every other r.
C15_OutcomeMapping ==
    [][\A t \in Threads : IterateReturns(t) =>
          LET r == call[t].status
              result == call'[t].result
          IN  IF r = 0
              THEN result = Ok /\ poll' = poll
              ELSE /\ poll'.finished
                   /\ result.kind \notin {"Ok", "None", "MdnsSystemError"}
                   /\ result.message = OutcomeDescription(r)]_vars

\* On one handle the native call of one iterate returned 2 and the call gave
\* the unknown-result error, and the native call of another returned -2.
C15_Witness ==
    \E t, u \in Threads :
        /\ FailedIterate(t) /\ call[t].status = 2
        /\ call[t].result.message = OutcomeDescription(2)
        /\ pc[u] = "iterate_match" /\ call[u].status = -2
        /\ poll.finished

\* The step is the native call of the iterate call of thread t.
NativeIterateStep(t) ==
    /\ pc[t] = "iterate_call"
    /\ pc'[t] = "iterate_match"

\* C16 as stated: avahi_simple_poll_iterate is never invoked while the flag is
\* true, in any interleaving.
C16_NativeNeverWhenFinished ==
    [][\A t \in Threads : NativeIterateStep(t) => ~poll.finished]_vars

\* C16, amended: an iterate call invokes avahi_simple_poll_iterate only after
\* its own check read the flag false; between that check and the native call
\* the flag is set only by the return of another thread's overlapping iterate
\* call whose native result was non-zero.
C16_CheckedBeforeNative ==
    [][\A t \in Threads :
          /\ (pc[t] = "idle" /\ pc'[t] = "iterate_call") => ~poll.finished
          /\ (pc[t] = "iterate_call" /\ ~poll.finished /\ poll'.finished) =>
                \E u \in Threads \ {t} : IterateReturns(u) /\ call[u].status # 0]_vars

\* Thread t has passed its check and is about to invoke the native routine,
\* and the flag has been set by the iterate call of thread u since.
C16_Witness ==
    \E t, u \in Threads :
        /\ pc[t] = "iterate_call"
        /\ FailedIterate(u)
        /\ poll.finished

\* C17: start_loop called on a finished handle does not invoke
\* avahi_simple_poll_loop.
C17_NoLoopWhenFinished ==
    [][\A t \in Threads : (pc[t] = "idle" /\ pc'[t] = "loop") => ~poll.finished]_vars

\* The step is a call of new by thread t.
NewStep(t) ==
    /\ pc[t] = "idle"
    /\ call'[t].op = "new"
    /\ call'[t] # call[t]

\* C18: when avahi_simple_poll_new returns null, new returns an error with the
\* message "could not initialize AvahiSimplePoll", no handle is created and
\* avahi_simple_poll_free is not called; when it returns a pointer, new returns
\* a handle that is not finished and owns that poll.
C18_NewOutcome ==
    /\ [][\A t \in Threads : NewStep(t) =>
            /\ simple_poll' = simple_poll
            /\ IF call'[t].native = NullPtr
               THEN /\ call'[t].result.kind \notin {"Ok", "None"}
                    /\ call'[t].result.message = <<"could not initialize AvahiSimplePoll">>
                    /\ poll' = poll
                    /\ holds' = holds
               ELSE /\ call'[t].result = Ok
                    /\ poll' = [state |-> "live", finished |-> FALSE]
                    /\ holds' = [holds EXCEPT ![t] = TRUE]]_vars
    /\ [](poll.state = "none" =>
            /\ simple_poll.free_calls = 0
            /\ ~poll.finished
            /\ \A t \in Threads : ~holds[t])

\* One thread's new failed on a null pointer, then another thread's new made
\* the handle, which is live and not finished.
C18_Witness ==
    \E t, u \in Threads :
        /\ call[t].op = "new" /\ call[t].native = NullPtr
        /\ call[t].result.kind = "IllegalState"
        /\ call[u].op = "new" /\ call[u].result = Ok
        /\ holds[u] /\ ~holds[t]
        /\ poll = [state |-> "live", finished |-> FALSE]
        /\ simple_poll.free_calls = 0

\* C19: the flag is true only if a native iterate call on the handle has
\* returned a non-zero result, and when an iterate call returns the error of a
\* non-zero native result the flag is already true.
C19_FlagIffNonZeroResult ==
    /\ [](poll.finished => simple_poll.iterate_calls > 0)
    /\ [](\A t \in Threads : FailedIterate(t) =>
            poll.finished /\ call[t].result.kind \notin {"Ok", "None"})
    /\ [][~poll.finished /\ poll'.finished =>
            \E t \in Threads : IterateReturns(t) /\ call[t].status # 0]_vars

\* An iterate call returned the unknown-result error for the native result -2
\* and the flag is true, while start_loop blocks another thread.
C19_Witness ==
    \E t, u \in Threads :
        /\ FailedIterate(t) /\ call[t].status = -2
        /\ pc[u] = "loop"
        /\ poll.finished

====
